---- MODULE Spec2Model ----
(***************************************************************************)
(* GWC multi-open verifier of the KZG commitment scheme                    *)
(* (halo2_proofs/src/poly/kzg/multiopen/gwc/verifier.rs):                  *)
(* VerifierGWC::verify_proof and the BatchVerifier strategy that drives it.*)
(*                                                                         *)
(* Scalars are the elements of the prime field F_P.  The group G1 has      *)
(* prime order P; a group element is written by its discrete logarithm to  *)
(* the base g0 = params.g[0], so  s * b  is multiplication modulo P and    *)
(* the pairing equation  e(left, [s]_2) = e(right, [1]_2)  is              *)
(* S * left = right  in F_P.                                               *)
(***************************************************************************)
EXTENDS Integers, Sequences, FiniteSets, TLC

\* ------------------------------------------------------------ bounds
\* Longest query sequence handed to a directly called verify_proof.
MaxQueries == 3
\* Most proofs one BatchVerifier processes before finalize.
MaxProofs == 2

\* ------------------------------------------------------------ algebra
\* Order of the scalar field E::Scalar (and of the group G1), scaled down.
P == 5
\* The trusted setup's secret: params.s_g2 = [S]_2.
S == 2
\* Discrete logarithm of params.g[0], the base generator.
G0 == 1

F == 0 .. (P - 1)
Elems == F

FAdd(a, b) == (a + b) % P
FMul(a, b) == (a * b) % P
FNeg(a) == (P - a) % P

RECURSIVE FPow(_, _)
FPow(a, n) == IF n = 0 THEN 1 ELSE FMul(a, FPow(a, n - 1))

RECURSIVE SeqSum(_)
SeqSum(s) == IF s = <<>> THEN 0 ELSE FAdd(Head(s), SeqSum(Tail(s)))

\* ------------------------------------------------------------ MSMKZG
\* An MSM is the ordered list of its (scalar, base) terms.
MsmNew == <<>>

MsmScale(m, f) == [i \in DOMAIN m |-> [s |-> FMul(m[i].s, f), b |-> m[i].b]]

MsmAppendTerm(m, s, b) == Append(m, [s |-> s, b |-> b])

MsmAddMsm(m, other) == m \o other

\* The group element the MSM stands for (its single final evaluation).
MsmEval(m) == SeqSum([i \in DOMAIN m |-> FMul(m[i].s, m[i].b)])

\* The coefficient base b carries in the MSM, as a formal combination.
MsmCoef(m, b) == SeqSum([i \in DOMAIN m |-> IF m[i].b = b THEN m[i].s ELSE 0])

\* ------------------------------------------------------------ DualMSM
DualNew == [left |-> MsmNew, right |-> MsmNew]

DualScale(d, f) == [left |-> MsmScale(d.left, f), right |-> MsmScale(d.right, f)]

\* e(left, [s]_2) * e(right, -[1]_2) = 1
DualCheck(d) == FMul(S, MsmEval(d.left)) = MsmEval(d.right)

\* ------------------------------------------------------------ queries
\* CommitmentReference: a direct commitment or a borrowed MSM.
RefCommitment(c) == [tag |-> "Commitment", c |-> c, msm |-> MsmNew]
RefMSM(m) == [tag |-> "MSM", c |-> 0, msm |-> m]

VerifierQuery(z, ref, e) == [point |-> z, commitment |-> ref, eval |-> e]

\* Polynomials are coefficient lists, lowest degree first.
RECURSIVE PolyEval(_, _)
PolyEval(f, x) == IF f = <<>> THEN 0 ELSE FAdd(Head(f), FMul(x, PolyEval(Tail(f), x)))

\* Coefficient of X^k of the quotient (f(X) - f(z)) / (X - z).
RECURSIVE QuotCoef(_, _, _)
QuotCoef(f, z, k) ==
    IF k >= Len(f) - 1 THEN 0 ELSE FAdd(f[k + 2], FMul(z, QuotCoef(f, z, k + 1)))

\* Commitment to a polynomial: f(S) * g0.
Commit(f) == FMul(PolyEval(f, S), G0)

\* Commitment to the opening witness of f at z.
CommitQuot(f, z) ==
    FMul(SeqSum([k \in 1 .. Len(f) |-> FMul(QuotCoef(f, z, k - 1), FPow(S, k - 1))]), G0)

\* The two committed polynomials of the setting and what is opened:
\* "C" is the commitment to F1, "M" the MSM 3*[F1] + 1*[F2].
F1 == <<2, 1>>
F2 == <<4, 0, 2>>
RefNames == {"C", "M"}
PolyOf(name) ==
    IF name = "C" THEN F1
    ELSE [k \in 1 .. 3 |-> FAdd(FMul(3, IF k <= Len(F1) THEN F1[k] ELSE 0), F2[k])]
RefOf(name) ==
    IF name = "C" THEN RefCommitment(Commit(F1))
    ELSE RefMSM(<<[s |-> 3, b |-> Commit(F1)], [s |-> 1, b |-> Commit(F2)]>>)

\* Evaluation points the queries open at.
Points == 1 .. 3

\* ------------------------------------------------- query grouping
\* construct_intermediate_sets: one CommitmentData {point, queries} per
\* distinct point, in first-occurrence order.
Position(groups, point) ==
    LET hits == {i \in DOMAIN groups : groups[i].point = point}
    IN  IF hits = {} THEN 0 ELSE CHOOSE i \in hits : \A j \in hits : i <= j

PushQuery(groups, query) ==
    LET pos == Position(groups, query.point)
    IN  IF pos # 0
        THEN [groups EXCEPT ![pos].queries = Append(@, query)]
        ELSE Append(groups, [point |-> query.point, queries |-> <<query>>])

RECURSIVE PushAll(_, _)
PushAll(groups, queries) ==
    IF queries = <<>> THEN groups
    ELSE PushAll(PushQuery(groups, Head(queries)), Tail(queries))

construct_intermediate_sets(queries) == PushAll(<<>>, queries)

\* ------------------------------------------------- verify_proof, the fold
\* Mutant of FoldQuery: a nested MSM is merged first and scaled by v with the batch.
FoldScalesNested(batch, query, v) ==
    [commitment_batch |->
         IF query.commitment.tag = "Commitment"
         THEN MsmAppendTerm(MsmScale(batch.commitment_batch, v), 1, query.commitment.c)
         ELSE MsmScale(MsmAddMsm(batch.commitment_batch, query.commitment.msm), v),
     eval_batch |-> FAdd(FMul(batch.eval_batch, v), query.eval),
     panic |-> FALSE]

\* Lines 90-103: one query folded into the group's running batch.
FoldQuery(batch, query, v) ==
    LET scaled == MsmScale(batch.commitment_batch, v)
    IN  [commitment_batch |->
             IF query.commitment.tag = "Commitment"
             THEN MsmAppendTerm(scaled, 1, query.commitment.c)
             ELSE MsmAddMsm(scaled, query.commitment.msm),
         eval_batch |-> FAdd(FMul(batch.eval_batch, v), query.eval),
         panic |-> FALSE]

\* Mutant of QueryLoop: the point of a query is not compared with the group's.
RECURSIVE QueryLoopUnchecked(_, _, _, _)
QueryLoopUnchecked(queries, z, v, batch) ==
    IF queries = <<>> THEN batch
    ELSE QueryLoopUnchecked(Tail(queries), z, v, FoldQuery(batch, Head(queries), v))

\* Lines 87-104: the loop over a group's queries; assert_eq!(query.get_point(), z)
\* stops it with a panic.
RECURSIVE QueryLoop(_, _, _, _)
QueryLoop(queries, z, v, batch) ==
    IF queries = <<>> THEN batch
    ELSE IF Head(queries).point # z THEN [batch EXCEPT !.panic = TRUE]
    ELSE QueryLoop(Tail(queries), z, v, FoldQuery(batch, Head(queries), v))

\* Lines 84-85.
NewBatch == [commitment_batch |-> MsmNew, eval_batch |-> 0, panic |-> FALSE]

\* Mutant of ScaleAndAppendWitness: commitment_multi.scale(*u) is forgotten.
ScaleForgetsCommitments(multi, z, wi, u) ==
    [witness_with_aux |-> MsmAppendTerm(MsmScale(multi.witness_with_aux, u), z, wi),
     witness |-> MsmAppendTerm(MsmScale(multi.witness, u), 1, wi),
     commitment_multi |-> multi.commitment_multi,
     eval_multi |-> FMul(multi.eval_multi, u),
     panic |-> FALSE]

\* Mutant of ScaleAndAppendWitness: the witness terms are appended, then scaled.
AppendWitnessThenScale(multi, z, wi, u) ==
    [witness_with_aux |-> MsmScale(MsmAppendTerm(multi.witness_with_aux, z, wi), u),
     witness |-> MsmScale(MsmAppendTerm(multi.witness, 1, wi), u),
     commitment_multi |-> MsmScale(multi.commitment_multi, u),
     eval_multi |-> FMul(multi.eval_multi, u),
     panic |-> FALSE]

\* Lines 77-82: the four running values scaled by u, the witness terms appended.
ScaleAndAppendWitness(multi, z, wi, u) ==
    [witness_with_aux |-> MsmAppendTerm(MsmScale(multi.witness_with_aux, u), z, wi),
     witness |-> MsmAppendTerm(MsmScale(multi.witness, u), 1, wi),
     commitment_multi |-> MsmScale(multi.commitment_multi, u),
     eval_multi |-> FMul(multi.eval_multi, u),
     panic |-> FALSE]

\* Mutant of MergeBatch: eval_multi += eval_batch is forgotten.
MergeForgetsEval(multi, batch) ==
    [multi EXCEPT !.commitment_multi = MsmAddMsm(@, batch.commitment_batch)]

\* Lines 106-107.
MergeBatch(multi, batch) ==
    [multi EXCEPT !.commitment_multi = MsmAddMsm(@, batch.commitment_batch),
                  !.eval_multi = FAdd(@, batch.eval_batch)]

\* Lines 73-108: the loop over the zipped (group, witness commitment) pairs;
\* assert!(!queries.is_empty()) and the inner assert_eq! stop it with a panic.
RECURSIVE GroupLoop(_, _, _, _, _)
GroupLoop(commitment_data, w, u, v, multi) ==
    IF commitment_data = <<>> \/ w = <<>> THEN multi
    ELSE LET commitment_at_a_point == Head(commitment_data)
             z == commitment_at_a_point.point
             scaled == ScaleAndAppendWitness(multi, z, Head(w), u)
             batch == QueryLoop(commitment_at_a_point.queries, z, v, NewBatch)
         IN  IF commitment_at_a_point.queries = <<>> THEN [multi EXCEPT !.panic = TRUE]
             ELSE IF batch.panic THEN [scaled EXCEPT !.panic = TRUE]
             ELSE GroupLoop(Tail(commitment_data), Tail(w), u, v, MergeBatch(scaled, batch))

\* Lines 67-71.
NewMulti ==
    [witness_with_aux |-> MsmNew, witness |-> MsmNew,
     commitment_multi |-> MsmNew, eval_multi |-> 0, panic |-> FALSE]

\* Mutant of UpdateAccumulator: the evaluation term is appended on g0, not -g0.
UpdateWithPlusG0(msm_accumulator, multi) ==
    [left |-> MsmAddMsm(msm_accumulator.left, multi.witness),
     right |-> MsmAppendTerm(
                   MsmAddMsm(MsmAddMsm(msm_accumulator.right, multi.witness_with_aux),
                             multi.commitment_multi),
                   multi.eval_multi, G0)]

\* Mutant of UpdateAccumulator: the new terms go in front of the supplied ones.
UpdatePrepends(msm_accumulator, multi) ==
    [left |-> MsmAddMsm(multi.witness, msm_accumulator.left),
     right |-> MsmAppendTerm(
                   MsmAddMsm(MsmAddMsm(multi.witness_with_aux, msm_accumulator.right),
                             multi.commitment_multi),
                   multi.eval_multi, FNeg(G0))]

\* Lines 110-115: the supplied accumulator after the four merges.
UpdateAccumulator(msm_accumulator, multi) ==
    [left |-> MsmAddMsm(msm_accumulator.left, multi.witness),
     right |-> MsmAppendTerm(
                   MsmAddMsm(MsmAddMsm(msm_accumulator.right, multi.witness_with_aux),
                             multi.commitment_multi),
                   multi.eval_multi, FNeg(G0))]

\* ------------------------------------------------- proofs handed in
\* What a caller hands to verify_proof: the queries, and a transcript made of
\* the challenges its hash will yield (in squeeze order) and the encoded points
\* of the proof stream, followed by one item that belongs to the outer protocol.
\* kind/idx/delta record how the proof was made: "honest", "tampered" (the
\* claimed evaluation of query idx raised by delta, the proof stream untouched)
\* or "undecodable" (the idx-th encoded point is no curve point).
\* A plan lists what is opened where: the points are free, the commitment
\* references alternate, starting with either.
PlanOf(points, first) ==
    [i \in DOMAIN points |->
        [point |-> points[i],
         ref |-> IF i % 2 = 1 THEN first ELSE CHOOSE other \in RefNames : other # first]]
Plans(n) ==
    UNION {{PlanOf(points, first) : points \in [1 .. k -> Points], first \in RefNames} :
               k \in 1 .. n}
TamperDeltas == {2}

Variants(plan) ==
    {[kind |-> "honest", idx |-> 0, delta |-> 0]}
    \cup {[kind |-> "tampered", idx |-> i, delta |-> d] : i \in DOMAIN plan, d \in TamperDeltas}
    \cup {[kind |-> "undecodable", idx |-> i, delta |-> 0] :
              i \in 1 .. Len(construct_intermediate_sets(plan))}

\* The prover's witness commitment of a group: the opening witness at the
\* group's point of the v-folded polynomial sum_j v^(m-j) * f_j.
HonestWitness(group, v) ==
    LET m == Len(group.queries)
    IN  SeqSum([j \in 1 .. m |->
            FMul(FPow(v, m - j), CommitQuot(PolyOf(group.queries[j].ref), group.point))])

ValidPoint(e) == [valid |-> TRUE, pt |-> e]
BadPoint == [valid |-> FALSE, pt |-> 0]

Instance(plan, v, u, var) ==
    LET groups == construct_intermediate_sets(plan)
        n == Len(groups)
    IN  [queries |-> [i \in DOMAIN plan |->
             VerifierQuery(plan[i].point, RefOf(plan[i].ref),
                 FAdd(PolyEval(PolyOf(plan[i].ref), plan[i].point),
                      IF var.kind = "tampered" /\ var.idx = i THEN var.delta ELSE 0))],
         chal |-> <<v, u>>,
         pts |-> [i \in 1 .. n + 1 |->
             IF i > n THEN ValidPoint(G0)
             ELSE IF var.kind = "undecodable" /\ var.idx = i THEN BadPoint
             ELSE ValidPoint(HonestWitness(groups[i], v))],
         kind |-> var.kind, idx |-> var.idx]

\* Every pair of challenges; an undecodable proof never reaches the second.
ChallengePairs(var) ==
    IF var.kind = "undecodable" THEN {<<v, 0>> : v \in F} ELSE F \X F

DirectPlans == Plans(MaxQueries)

\* The proofs a batch is made of: two query sets (two groups of one query; one
\* group of two queries) under nonzero challenges, honest, tampered or
\* undecodable, and a tampered proof under u = 0.
BatchPlans ==
    {<<[point |-> 1, ref |-> "C"], [point |-> 2, ref |-> "M"]>>,
     <<[point |-> 3, ref |-> "M"], [point |-> 3, ref |-> "C"]>>}
BatchVariants ==
    {[kind |-> "honest", idx |-> 0, delta |-> 0],
     [kind |-> "tampered", idx |-> 1, delta |-> 1],
     [kind |-> "undecodable", idx |-> 1, delta |-> 0]}
BatchProofs ==
    {Instance(plan, 2, 3, var) : plan \in BatchPlans, var \in BatchVariants}
    \cup {Instance(<<[point |-> 1, ref |-> "C"], [point |-> 2, ref |-> "M"]>>, 1, 0,
                   [kind |-> "tampered", idx |-> 1, delta |-> 1])}

\* Lines 57-117 as one function, for a proof whose points all decode: the
\* accumulator inside the Guard that verify_proof returns.
VerifyProof(p, msm_accumulator) ==
    LET commitment_data == construct_intermediate_sets(p.queries)
        w == [i \in DOMAIN commitment_data |-> p.pts[i].pt]
    IN  UpdateAccumulator(msm_accumulator,
            GroupLoop(commitment_data, w, p.chal[2], p.chal[1], NewMulti))

NoProof == [queries |-> <<>>, chal |-> <<>>, pts |-> <<>>, kind |-> "none", idx |-> 0]

\* ------------------------------------------------- state
VARIABLES
    caller,      \* who drives verify_proof: "direct" (verify_proof, then check) or "batch"
    strategy,    \* the BatchVerifier: state, msm_accumulator, rng (the scalars drawn so far)
    proof,       \* the proof under verification, as handed in
    transcript,  \* chal, pts: what is left of the transcript; ops: the operations made on it
    pc,          \* position inside verify_proof
    local,       \* verify_proof's locals, msm_accumulator among them (entry: its value
                 \* when the call was entered)
    outcome,     \* what verify_proof returned: "none", "Guard", "SamplingError", "panic"
    pairings,    \* pairing checks performed so far
    accepted,    \* result of check(): "none", "true", "false"
    failed,      \* a process call has returned an error
    history      \* the successful process calls, in order: scalar drawn and proof

vars == <<caller, strategy, proof, transcript, pc, local, outcome, pairings, accepted,
          failed, history>>

NoLocal ==
    [v |-> 0, commitment_data |-> <<>>, w |-> <<>>, u |-> 0, multi |-> NewMulti,
     msm_accumulator |-> DualNew, entry |-> DualNew]
NoTranscript == [chal |-> <<>>, pts |-> <<>>, ops |-> <<>>]

Init ==
    /\ caller \in {"direct", "batch"}
    /\ strategy = [state |-> IF caller = "batch" THEN "alive" ELSE "none",
                   msm_accumulator |-> DualNew, rng |-> <<>>]
    /\ proof = NoProof
    /\ transcript = NoTranscript
    /\ pc = "idle"
    /\ local = NoLocal
    /\ outcome = "none"
    /\ pairings = 0
    /\ accepted = "none"
    /\ failed = FALSE
    /\ history = <<>>

\* verify_proof is entered with the caller's transcript, queries and accumulator.
Enter(p, msm_accumulator) ==
    /\ proof' = p
    /\ transcript' = [chal |-> p.chal, pts |-> p.pts, ops |-> <<>>]
    /\ local' = [NoLocal EXCEPT !.msm_accumulator = msm_accumulator,
                                !.entry = msm_accumulator]
    /\ pc' = "squeeze_v"
    /\ outcome' = "none"

\* A caller verifies one proof into an empty accumulator.
CallDirect ==
    /\ caller = "direct" /\ pc = "idle" /\ outcome = "none"
    /\ \E plan \in DirectPlans : \E var \in Variants(plan) : \E c \in ChallengePairs(var) :
          Enter(Instance(plan, c[1], c[2], var), DualNew)
    /\ UNCHANGED <<caller, strategy, pairings, accepted, failed, history>>

\* Mutant of ProcessCall: f is handed a fresh accumulator, not the running one.
ProcessCallFreshAccumulator ==
    /\ caller = "batch" /\ strategy.state = "alive" /\ pc = "idle"
    /\ Len(history) < MaxProofs
    /\ \E p \in BatchProofs, r \in F :
          /\ Enter(p, DualNew)
          /\ strategy' = [state |-> "moved", msm_accumulator |-> DualNew,
                          rng |-> Append(strategy.rng, r)]
    /\ UNCHANGED <<caller, pairings, accepted, failed, history>>

\* Mutant of ProcessCall: the scalar is drawn but the accumulator is not scaled.
ProcessCallUnscaled ==
    /\ caller = "batch" /\ strategy.state = "alive" /\ pc = "idle"
    /\ Len(history) < MaxProofs
    /\ \E p \in BatchProofs, r \in F :
          /\ Enter(p, strategy.msm_accumulator)
          /\ strategy' = [state |-> "moved", msm_accumulator |-> DualNew,
                          rng |-> Append(strategy.rng, r)]
    /\ UNCHANGED <<caller, pairings, accepted, failed, history>>

\* Lines 135-138: process draws a scalar, scales the running accumulator and
\* moves it into f, which runs verify_proof.
ProcessCall ==
    /\ caller = "batch" /\ strategy.state = "alive" /\ pc = "idle"
    /\ Len(history) < MaxProofs
    /\ \E p \in BatchProofs, r \in F :
          /\ Enter(p, DualScale(strategy.msm_accumulator, r))
          /\ strategy' = [state |-> "moved", msm_accumulator |-> DualNew,
                          rng |-> Append(strategy.rng, r)]
    /\ UNCHANGED <<caller, pairings, accepted, failed, history>>

\* Mutant of SqueezeV: the challenge is not taken from the transcript.
SqueezeVAnyValue ==
    /\ pc = "squeeze_v"
    /\ \E x \in F : local' = [local EXCEPT !.v = x]
    /\ transcript' = [transcript EXCEPT !.chal = Tail(@), !.ops = Append(@, "squeeze")]
    /\ pc' = "group"
    /\ UNCHANGED <<caller, strategy, proof, outcome, pairings, accepted, failed, history>>

\* Line 57.
SqueezeV ==
    /\ pc = "squeeze_v"
    /\ local' = [local EXCEPT !.v = Head(transcript.chal)]
    /\ transcript' = [transcript EXCEPT !.chal = Tail(@), !.ops = Append(@, "squeeze")]
    /\ pc' = "group"
    /\ UNCHANGED <<caller, strategy, proof, outcome, pairings, accepted, failed, history>>

\* Mutant of Group: the grouping step leaves a mark on the transcript.
GroupTouchesTranscript ==
    /\ pc = "group"
    /\ local' = [local EXCEPT !.commitment_data = construct_intermediate_sets(proof.queries)]
    /\ transcript' = [transcript EXCEPT !.ops = Append(@, "squeeze")]
    /\ pc' = IF construct_intermediate_sets(proof.queries) = <<>> THEN "squeeze_u" ELSE "read"
    /\ UNCHANGED <<caller, strategy, proof, outcome, pairings, accepted, failed, history>>

\* Mutant of Group: every query lands in one group under the first query's point.
GroupAllUnderFirstPoint ==
    /\ pc = "group"
    /\ local' = [local EXCEPT !.commitment_data =
                     IF proof.queries = <<>> THEN <<>>
                     ELSE <<[point |-> proof.queries[1].point, queries |-> proof.queries]>>]
    /\ pc' = IF proof.queries = <<>> THEN "squeeze_u" ELSE "read"
    /\ UNCHANGED <<caller, strategy, proof, transcript, outcome, pairings, accepted,
                   failed, history>>

\* Line 59.
Group ==
    /\ pc = "group"
    /\ local' = [local EXCEPT !.commitment_data = construct_intermediate_sets(proof.queries)]
    /\ pc' = IF construct_intermediate_sets(proof.queries) = <<>> THEN "squeeze_u" ELSE "read"
    /\ UNCHANGED <<caller, strategy, proof, transcript, outcome, pairings, accepted,
                   failed, history>>

\* Mutant of ReadPoint: one point is read per query, not per group.
ReadPointPerQuery ==
    /\ pc = "read"
    /\ LET item == IF transcript.pts = <<>> THEN BadPoint ELSE Head(transcript.pts)
           w == Append(local.w, item.pt)
       IN  /\ transcript' = [transcript EXCEPT
                   !.pts = IF @ = <<>> THEN @ ELSE Tail(@), !.ops = Append(@, "read_point")]
           /\ local' = IF item.valid THEN [local EXCEPT !.w = w] ELSE local
           /\ pc' = IF ~item.valid THEN "returned"
                    ELSE IF Len(w) = Len(proof.queries) THEN "squeeze_u" ELSE "read"
           /\ outcome' = IF item.valid THEN outcome ELSE "SamplingError"
    /\ UNCHANGED <<caller, strategy, proof, pairings, accepted, failed, history>>

\* Mutant of ReadPoint: a point that fails to decode is skipped.
ReadPointSkipsBad ==
    /\ pc = "read"
    /\ LET item == IF transcript.pts = <<>> THEN BadPoint ELSE Head(transcript.pts)
           w == IF item.valid THEN Append(local.w, item.pt) ELSE local.w
       IN  /\ transcript' = [transcript EXCEPT
                   !.pts = IF @ = <<>> THEN @ ELSE Tail(@), !.ops = Append(@, "read_point")]
           /\ local' = [local EXCEPT !.w = w]
           /\ pc' = IF transcript.pts = <<>> THEN "returned"
                    ELSE IF Len(w) = Len(local.commitment_data) THEN "squeeze_u" ELSE "read"
           /\ outcome' = IF transcript.pts = <<>> THEN "SamplingError" ELSE outcome
    /\ UNCHANGED <<caller, strategy, proof, pairings, accepted, failed, history>>

\* Lines 61-63: one step of the lazily collected reads; the first failure
\* returns Err(SamplingError).
ReadPoint ==
    /\ pc = "read"
    /\ LET item == IF transcript.pts = <<>> THEN BadPoint ELSE Head(transcript.pts)
           w == Append(local.w, item.pt)
       IN  /\ transcript' = [transcript EXCEPT
                   !.pts = IF @ = <<>> THEN @ ELSE Tail(@), !.ops = Append(@, "read_point")]
           /\ local' = IF item.valid THEN [local EXCEPT !.w = w] ELSE local
           /\ pc' = IF ~item.valid THEN "returned"
                    ELSE IF Len(w) = Len(local.commitment_data) THEN "squeeze_u" ELSE "read"
           /\ outcome' = IF item.valid THEN outcome ELSE "SamplingError"
    /\ UNCHANGED <<caller, strategy, proof, pairings, accepted, failed, history>>

\* Line 65.
SqueezeU ==
    /\ pc = "squeeze_u"
    /\ local' = [local EXCEPT !.u = Head(transcript.chal)]
    /\ transcript' = [transcript EXCEPT !.chal = Tail(@), !.ops = Append(@, "squeeze")]
    /\ pc' = "fold"
    /\ UNCHANGED <<caller, strategy, proof, outcome, pairings, accepted, failed, history>>

\* Lines 67-108; a failed assertion aborts the process.
Fold ==
    /\ pc = "fold"
    /\ LET multi == GroupLoop(local.commitment_data, local.w, local.u, local.v, NewMulti)
       IN  /\ local' = [local EXCEPT !.multi = multi]
           /\ pc' = IF multi.panic THEN "aborted" ELSE "update"
           /\ outcome' = IF multi.panic THEN "panic" ELSE outcome
    /\ UNCHANGED <<caller, strategy, proof, transcript, pairings, accepted, failed, history>>

\* Lines 110-117: the accumulator is updated and returned inside a Guard.
Update ==
    /\ pc = "update"
    /\ local' = [local EXCEPT !.msm_accumulator = UpdateAccumulator(@, local.multi)]
    /\ pc' = "returned"
    /\ outcome' = "Guard"
    /\ UNCHANGED <<caller, strategy, proof, transcript, pairings, accepted, failed, history>>

\* The direct caller checks the accumulator of the Guard it got.
DirectCheck ==
    /\ caller = "direct" /\ pc = "returned" /\ outcome = "Guard"
    /\ accepted' = IF DualCheck(local.msm_accumulator) THEN "true" ELSE "false"
    /\ pairings' = pairings + 1
    /\ pc' = "done"
    /\ UNCHANGED <<caller, strategy, proof, transcript, local, outcome, failed, history>>

\* Mutant of ProcessOk: the Guard's accumulator is checked as soon as f returns.
ProcessOkChecks ==
    /\ caller = "batch" /\ pc = "returned" /\ outcome = "Guard"
    /\ strategy' = [strategy EXCEPT !.state = "alive",
                                    !.msm_accumulator = local.msm_accumulator]
    /\ history' = Append(history, [r |-> strategy.rng[Len(strategy.rng)], proof |-> proof])
    /\ proof' = NoProof
    /\ transcript' = NoTranscript
    /\ local' = NoLocal
    /\ pc' = "idle"
    /\ outcome' = "none"
    /\ pairings' = pairings + 1
    /\ UNCHANGED <<caller, accepted, failed>>

\* Mutant of ProcessOk: the scalar is applied after the proof was folded in.
ProcessOkScalesAfter ==
    /\ caller = "batch" /\ pc = "returned" /\ outcome = "Guard"
    /\ strategy' = [strategy EXCEPT !.state = "alive",
                       !.msm_accumulator = DualScale(local.msm_accumulator,
                                                     strategy.rng[Len(strategy.rng)])]
    /\ history' = Append(history, [r |-> strategy.rng[Len(strategy.rng)], proof |-> proof])
    /\ proof' = NoProof
    /\ transcript' = NoTranscript
    /\ local' = NoLocal
    /\ pc' = "idle"
    /\ outcome' = "none"
    /\ UNCHANGED <<caller, pairings, accepted, failed>>

\* Lines 138-139, f returned Ok(guard): the strategy built from the Guard's
\* accumulator and the rng is returned.
ProcessOk ==
    /\ caller = "batch" /\ pc = "returned" /\ outcome = "Guard"
    /\ strategy' = [strategy EXCEPT !.state = "alive",
                                    !.msm_accumulator = local.msm_accumulator]
    /\ history' = Append(history, [r |-> strategy.rng[Len(strategy.rng)], proof |-> proof])
    /\ proof' = NoProof
    /\ transcript' = NoTranscript
    /\ local' = NoLocal
    /\ pc' = "idle"
    /\ outcome' = "none"
    /\ UNCHANGED <<caller, pairings, accepted, failed>>

\* Mutant of ProcessErr: the strategy survives the error (process on &mut self),
\* holding the accumulator as it was handed to f.
ProcessErrKeepsStrategy ==
    /\ caller = "batch" /\ pc = "returned" /\ outcome = "SamplingError"
    /\ strategy' = [strategy EXCEPT !.state = "alive",
                                    !.msm_accumulator = local.msm_accumulator]
    /\ failed' = TRUE
    /\ pc' = "idle"
    /\ UNCHANGED <<caller, proof, transcript, local, outcome, pairings, accepted, history>>

\* Line 138, f returned Err: `?` returns it; self, moved into process, is dropped.
ProcessErr ==
    /\ caller = "batch" /\ pc = "returned" /\ outcome = "SamplingError"
    /\ strategy' = [strategy EXCEPT !.state = "dropped"]
    /\ failed' = TRUE
    /\ pc' = "idle"
    /\ UNCHANGED <<caller, proof, transcript, local, outcome, pairings, accepted, history>>

\* Lines 142-144.
Finalize ==
    /\ caller = "batch" /\ strategy.state = "alive" /\ pc = "idle"
    /\ accepted' = IF DualCheck(strategy.msm_accumulator) THEN "true" ELSE "false"
    /\ pairings' = pairings + 1
    /\ strategy' = [strategy EXCEPT !.state = "finalized"]
    /\ UNCHANGED <<caller, proof, transcript, pc, local, outcome, failed, history>>

Next ==
    \/ CallDirect
    \/ ProcessCall
    \/ SqueezeV
    \/ Group
    \/ ReadPoint
    \/ SqueezeU
    \/ Fold
    \/ Update
    \/ DirectCheck
    \/ ProcessOk
    \/ ProcessErr
    \/ Finalize

Spec == Init /\ [][Next]_vars

\* ------------------------------------------------- grouping left open
\* verify_proof takes whatever construct_intermediate_sets returns.  Here that
\* result is left open: each query is filed under its own point or under the
\* point of a query before it, so a group may hold a query of another point.
Keys(queries) ==
    {key \in [DOMAIN queries -> Points] :
        \A i \in DOMAIN queries :
            key[i] \in {queries[j].point : j \in 1 .. i}}

RECURSIVE Regroup(_, _, _)
Regroup(groups, queries, key) ==
    IF queries = <<>> THEN groups
    ELSE LET pos == Position(groups, Head(key))
         IN  Regroup(IF pos # 0
                     THEN [groups EXCEPT ![pos].queries = Append(@, Head(queries))]
                     ELSE Append(groups, [point |-> Head(key), queries |-> <<Head(queries)>>]),
                     Tail(queries), Tail(key))

\* Line 59, with any of these groupings as the result.
GroupAny ==
    /\ pc = "group"
    /\ \E key \in Keys(proof.queries) :
          LET commitment_data == Regroup(<<>>, proof.queries, key)
          IN  /\ local' = [local EXCEPT !.commitment_data = commitment_data]
              /\ pc' = IF commitment_data = <<>> THEN "squeeze_u" ELSE "read"
    /\ UNCHANGED <<caller, strategy, proof, transcript, outcome, pairings, accepted,
                   failed, history>>

InitDirect == Init /\ caller = "direct"

NextAnyGrouping ==
    \/ CallDirect
    \/ SqueezeV
    \/ GroupAny
    \/ ReadPoint
    \/ SqueezeU
    \/ Fold
    \/ Update
    \/ DirectCheck

SpecAnyGrouping == InitDirect /\ [][NextAnyGrouping]_vars

\* ------------------------------------------------- properties
QueryPoints == [i \in DOMAIN proof.queries |-> proof.queries[i].point]
\* Number of distinct points among the queries of the call.
NumPoints == Cardinality({QueryPoints[i] : i \in DOMAIN QueryPoints})
IsPrefix(s, t) == Len(s) <= Len(t) /\ s = SubSeq(t, 1, Len(s))
ExpectedOps(n) == <<"squeeze">> \o [i \in 1 .. n |-> "read_point"] \o <<"squeeze">>
NumReads == Cardinality({i \in DOMAIN transcript.ops : transcript.ops[i] = "read_point"})

\* C1: the transcript operations of a call are, in order, one squeeze (v), one
\* read_point per point group, one squeeze (u), and nothing else: at every moment
\* the operations made so far are a prefix of that sequence, the grouping step adds
\* none, and a call that returns a Guard has made all of them, reading the stream's
\* first N points in order into w and leaving the rest of the stream unread.
C1_TranscriptOrder ==
    /\ IsPrefix(transcript.ops, ExpectedOps(NumPoints))
    /\ pc = "read" => transcript.ops = <<"squeeze">> \o [i \in 1 .. Len(local.w) |-> "read_point"]
    /\ outcome = "Guard" =>
          /\ transcript.ops = ExpectedOps(NumPoints)
          /\ local.w = [i \in 1 .. NumPoints |-> proof.pts[i].pt]
          /\ transcript.pts = SubSeq(proof.pts, NumPoints + 1, Len(proof.pts))
          /\ transcript.chal = <<>>

C1_Witness ==
    /\ outcome = "Guard"
    /\ NumPoints = 3
    /\ transcript.ops = <<"squeeze", "read_point", "read_point", "read_point", "squeeze">>

\* Positions of the queries that open at a point not seen earlier in the input.
FirstOccurrences ==
    {i \in DOMAIN QueryPoints : \A j \in 1 .. i - 1 : QueryPoints[j] # QueryPoints[i]}
\* The points in the order of their first occurrence.
FirstPoints ==
    LET first == FirstOccurrences
    IN  [k \in 1 .. Cardinality(first) |->
            QueryPoints[CHOOSE i \in first : Cardinality({j \in first : j <= i}) = k]]
\* The call has passed the grouping step.
Grouped == pc \in {"read", "squeeze_u", "fold", "update", "returned", "done"}

\* C2: the groups partition the queries: the group points are the distinct points
\* in first-occurrence order, each group holds exactly the queries at its point in
\* input order (so every query is in exactly one group), and a call that
\* returns a Guard has read as many points as there are distinct points.
C2_GroupsPartition ==
    /\ Grouped =>
          /\ [g \in DOMAIN local.commitment_data |-> local.commitment_data[g].point]
                 = FirstPoints
          /\ \A g \in DOMAIN local.commitment_data :
                 local.commitment_data[g].queries
                     = SelectSeq(proof.queries,
                                 LAMBDA q : q.point = local.commitment_data[g].point)
    /\ outcome = "Guard" => NumReads = NumPoints

C2_Witness ==
    /\ outcome = "Guard"
    /\ QueryPoints = <<2, 1, 2>>
    /\ [g \in DOMAIN local.commitment_data |-> local.commitment_data[g].point] = <<2, 1>>
    /\ Len(local.commitment_data[1].queries) = 2
    /\ NumReads = 2

\* Coefficient of base b in what a commitment reference stands for.
RefCoef(ref, b) ==
    IF ref.tag = "Commitment" THEN (IF ref.c = b THEN 1 ELSE 0) ELSE MsmCoef(ref.msm, b)

\* sum_i u^(N-i) * term[i]
WeightedByU(term) ==
    SeqSum([i \in DOMAIN term |-> FMul(FPow(local.u, Len(term) - i), term[i])])
\* sum_j v^(m-j) * term[j]
WeightedByV(term) ==
    SeqSum([j \in DOMAIN term |-> FMul(FPow(local.v, Len(term) - j), term[j])])

\* The closed form of the claim, base by base.
ExpectedLeftGain(b) ==
    WeightedByU([i \in DOMAIN local.commitment_data |-> IF local.w[i] = b THEN 1 ELSE 0])
ExpectedRightGain(b) ==
    LET data == local.commitment_data
        aux == WeightedByU([i \in DOMAIN data |->
                   IF local.w[i] = b THEN data[i].point ELSE 0])
        commitments == WeightedByU([i \in DOMAIN data |->
                   WeightedByV([j \in DOMAIN data[i].queries |->
                       RefCoef(data[i].queries[j].commitment, b)])])
        evals == WeightedByU([i \in DOMAIN data |->
                   WeightedByV([j \in DOMAIN data[i].queries |-> data[i].queries[j].eval])])
    IN  FAdd(aux, FAdd(commitments, IF b = FNeg(G0) THEN evals ELSE 0))

\* C3: when verify_proof returns a Guard, each side of its accumulator is, base by
\* base, the accumulator supplied at entry plus the closed form: left gains
\* sum_i u^(N-i) W_i; right gains sum_i u^(N-i) z_i W_i, plus
\* sum_i u^(N-i) sum_j v^(m_i-j) C_ij, plus (sum_i u^(N-i) sum_j v^(m_i-j) e_ij) (-g0).
C3_ContributionClosedForm ==
    (pc = "returned" /\ outcome = "Guard") =>
        \A b \in Elems :
            /\ MsmCoef(local.msm_accumulator.left, b)
                   = FAdd(MsmCoef(local.entry.left, b), ExpectedLeftGain(b))
            /\ MsmCoef(local.msm_accumulator.right, b)
                   = FAdd(MsmCoef(local.entry.right, b), ExpectedRightGain(b))

C3_Witness ==
    /\ outcome = "Guard"
    /\ Len(local.commitment_data) = 2
    /\ Len(local.commitment_data[1].queries) = 2
    /\ local.commitment_data[1].queries[1].commitment.tag = "MSM"
    /\ local.u \notin {0, 1}
    /\ local.v \notin {0, 1}
    /\ C3_ContributionClosedForm

\* C4: completeness.  An honest proof verified into an empty accumulator passes
\* check, and a batch of that one proof passes finalize, whatever the challenges
\* and the scalar process drew.
C4_Completeness ==
    /\ (caller = "direct" /\ proof.kind = "honest" /\ pc = "done") => accepted = "true"
    /\ (caller = "batch" /\ strategy.state = "finalized" /\ Len(history) = 1
            /\ history[1].proof.kind = "honest") => accepted = "true"

C4_Witness ==
    /\ caller = "direct" /\ proof.kind = "honest" /\ pc = "done"
    /\ accepted = "true"
    /\ Len(proof.queries) = 3
    /\ Len(local.commitment_data) = 2
    /\ local.u \notin {0, 1}
    /\ local.v \notin {0, 1}

\* The batch half of C4 happens too: one honest proof, a nonzero scalar, finalize.
C4_BatchCase ==
    /\ caller = "batch" /\ strategy.state = "finalized" /\ Len(history) = 1
    /\ history[1].proof.kind = "honest"
    /\ history[1].r > 1
    /\ accepted = "true"

\* C5: one claimed evaluation changed, the proof stream left as the honest prover
\* wrote it: check rejects whenever both challenges are nonzero.
C5_TamperedEvalRejected ==
    (caller = "direct" /\ proof.kind = "tampered" /\ pc = "done"
         /\ local.v # 0 /\ local.u # 0) => accepted = "false"

C5_Witness ==
    /\ caller = "direct" /\ proof.kind = "tampered" /\ pc = "done"
    /\ local.v # 0 /\ local.u # 0
    /\ accepted = "false"
    /\ Len(local.commitment_data) = 2
    /\ proof.idx = 1
    /\ Len(local.commitment_data[1].queries) = 2

\* With a zero challenge the changed evaluation can drop out of the fold.
C5_ZeroChallengeCase ==
    /\ caller = "direct" /\ proof.kind = "tampered" /\ pc = "done"
    /\ accepted = "true"

\* The proofs of the batch whose evaluation was tampered with.
TamperedInBatch == {k \in DOMAIN history : history[k].proof.kind = "tampered"}

\* C6: finalize accepts a batch of honest proofs whatever scalars were drawn; with
\* exactly one proof of the batch tampered (one evaluation changed), its v and u
\* nonzero and every drawn scalar nonzero, finalize rejects, while each other
\* proof of the batch, verified alone into an empty accumulator, passes check.
C6_BatchSoundness ==
    (caller = "batch" /\ strategy.state = "finalized") =>
        /\ TamperedInBatch = {} => accepted = "true"
        /\ ( /\ Cardinality(TamperedInBatch) = 1
             /\ \A k \in TamperedInBatch :
                    history[k].proof.chal[1] # 0 /\ history[k].proof.chal[2] # 0
             /\ \A k \in DOMAIN history : history[k].r # 0 )
           => /\ accepted = "false"
              /\ \A k \in DOMAIN history \ TamperedInBatch :
                     DualCheck(VerifyProof(history[k].proof, DualNew))

C6_Witness ==
    /\ caller = "batch" /\ strategy.state = "finalized"
    /\ Len(history) = 2
    /\ TamperedInBatch = {1}
    /\ history[1].proof.chal = <<2, 3>>
    /\ history[1].r # 0 /\ history[2].r > 1
    /\ accepted = "false"
    /\ DualCheck(VerifyProof(history[2].proof, DualNew))

\* A zero scalar drawn after the tampered proof wipes it out of the batch.
C6_ZeroScalarCase ==
    /\ caller = "batch" /\ strategy.state = "finalized"
    /\ Cardinality(TamperedInBatch) = 1
    /\ \A k \in TamperedInBatch :
           history[k].proof.chal[1] # 0 /\ history[k].proof.chal[2] # 0
    /\ accepted = "true"

\* C8: a read that fails to decode ends the call with SamplingError at that read:
\* the transcript has seen the squeeze of v and the reads up to the failing one and
\* nothing after it, u is still undrawn, the accumulator is as it was supplied, and
\* no call on an undecodable proof returns a Guard.
C8_SamplingErrorStops ==
    /\ outcome = "SamplingError" =>
          /\ proof.kind = "undecodable"
          /\ transcript.ops = <<"squeeze">> \o [i \in 1 .. proof.idx |-> "read_point"]
          /\ transcript.chal = <<proof.chal[2]>>
          /\ transcript.pts = SubSeq(proof.pts, proof.idx + 1, Len(proof.pts))
          /\ Len(local.w) = proof.idx - 1
          /\ local.msm_accumulator = local.entry
          /\ pc \in {"returned", "idle"}
    /\ outcome = "Guard" => proof.kind # "undecodable"

C8_Witness ==
    /\ outcome = "SamplingError"
    /\ proof.idx = 2
    /\ Len(local.commitment_data) = 3
    /\ transcript.ops = <<"squeeze", "read_point", "read_point">>
    /\ Len(transcript.pts) = 2

\* The running accumulator a batch over the successful calls of history holds.
RECURSIVE FoldHistory(_, _)
FoldHistory(h, acc) ==
    IF h = <<>> THEN acc
    ELSE FoldHistory(Tail(h), VerifyProof(Head(h).proof, DualScale(acc, Head(h).r)))

\* C9: when f fails inside process, process returns the error and the strategy is
\* gone: it is never finalized and no pairing check runs; a strategy that can
\* still be used (or was finalized) has seen no failure and holds exactly what its
\* successful calls folded in.
C9_FailedProofIsolated ==
    /\ failed => /\ strategy.state = "dropped"
                 /\ outcome = "SamplingError"
                 /\ accepted = "none"
                 /\ pairings = 0
    /\ strategy.state \in {"alive", "finalized"} =>
          /\ ~failed
          /\ strategy.msm_accumulator = FoldHistory(history, DualNew)

C9_Witness ==
    /\ failed
    /\ Len(history) = 1
    /\ Len(strategy.rng) = 2
    /\ strategy.rng[2] > 1
    /\ strategy.state = "dropped"

\* C10: in a batch the pairing check runs once, in finalize, over everything the
\* successful calls folded in; none has run while the strategy is not finalized,
\* and none has run when verify_proof returns its Guard.
C10_OnePairingCheck ==
    /\ caller = "batch" =>
          /\ pairings = IF strategy.state = "finalized" THEN 1 ELSE 0
          /\ strategy.state # "finalized" => accepted = "none"
          /\ strategy.state = "finalized" =>
                 accepted = IF DualCheck(FoldHistory(history, DualNew)) THEN "true" ELSE "false"
    /\ (pc = "returned" /\ outcome = "Guard") => (pairings = 0 /\ accepted = "none")

C10_Witness ==
    /\ caller = "batch" /\ strategy.state = "finalized"
    /\ Len(history) = 2
    /\ pairings = 1

\* K = 0: finalize right after construction.
C10_EmptyBatchCase ==
    /\ caller = "batch" /\ strategy.state = "finalized"
    /\ history = <<>>
    /\ pairings = 1 /\ accepted = "true"

\* C11: a process call draws one scalar r, hands f the running accumulator with
\* both sides scaled by r, draws nothing more while f runs, and on Ok returns a
\* strategy holding the Guard's accumulator (base by base r * previous plus the
\* proof's contribution) and the randomness source as that one draw left it.
C11_ProcessStep ==
    [][ /\ (strategy.state = "alive" /\ strategy'.state = "moved") =>
              LET r == strategy'.rng[Len(strategy'.rng)]
              IN  /\ strategy'.rng = Append(strategy.rng, r)
                  /\ Len(local'.entry.left) = Len(strategy.msm_accumulator.left)
                  /\ Len(local'.entry.right) = Len(strategy.msm_accumulator.right)
                  /\ \A i \in DOMAIN local'.entry.left :
                         local'.entry.left[i]
                             = [s |-> FMul(r, strategy.msm_accumulator.left[i].s),
                                b |-> strategy.msm_accumulator.left[i].b]
                  /\ \A i \in DOMAIN local'.entry.right :
                         local'.entry.right[i]
                             = [s |-> FMul(r, strategy.msm_accumulator.right[i].s),
                                b |-> strategy.msm_accumulator.right[i].b]
                  /\ local'.msm_accumulator = local'.entry
        /\ (strategy.state = "moved" /\ strategy'.state = "moved") =>
              (strategy' = strategy /\ local'.entry = local.entry)
        /\ (strategy.state = "moved" /\ strategy'.state = "alive") =>
              /\ outcome = "Guard"
              /\ strategy'.msm_accumulator = local.msm_accumulator
              /\ strategy'.rng = strategy.rng
              /\ Len(strategy'.rng) = Len(history')
              /\ \A b \in Elems :
                    /\ MsmCoef(strategy'.msm_accumulator.left, b)
                           = FAdd(MsmCoef(local.entry.left, b), ExpectedLeftGain(b))
                    /\ MsmCoef(strategy'.msm_accumulator.right, b)
                           = FAdd(MsmCoef(local.entry.right, b), ExpectedRightGain(b))
      ]_vars

C11_Witness ==
    /\ caller = "batch" /\ strategy.state = "alive"
    /\ Len(history) = 2
    /\ Len(strategy.rng) = 2
    /\ strategy.rng[1] > 1 /\ strategy.rng[2] > 1 /\ strategy.rng[1] # strategy.rng[2]
    /\ Len(strategy.msm_accumulator.left) = 3

\* C12: the challenges and the accumulator of a returned Guard are a function of
\* the proof (transcript contents and queries) and of the accumulator supplied:
\* whatever else the run's state holds, v and u are the transcript's two
\* challenges and both term lists are, term for term, those the fold computes
\* from these inputs, so two runs on the same inputs end identically.
C12_Deterministic ==
    (pc = "returned" /\ outcome = "Guard") =>
        /\ local.v = proof.chal[1]
        /\ local.u = proof.chal[2]
        /\ local.msm_accumulator = VerifyProof(proof, local.entry)

C12_Witness ==
    /\ pc = "returned" /\ outcome = "Guard"
    /\ caller = "batch" /\ Len(history) = 1
    /\ Len(local.entry.left) > 0
    /\ Len(proof.queries) = 2
    /\ local.v # local.u

\* C13: once the queries are grouped, every group is non-empty and each of its
\* queries carries the group's point, so neither assert!(!queries.is_empty())
\* nor assert_eq!(query.get_point(), z) ever fails: no run panics.
C13_AssertionsNeverFail ==
    /\ outcome # "panic"
    /\ pc # "aborted"
    /\ pc \in {"read", "squeeze_u", "fold", "update"} =>
          \A g \in DOMAIN local.commitment_data :
              /\ local.commitment_data[g].queries # <<>>
              /\ \A q \in DOMAIN local.commitment_data[g].queries :
                     local.commitment_data[g].queries[q].point
                         = local.commitment_data[g].point
    /\ pc = "update" => ~local.multi.panic

C13_Witness ==
    /\ pc = "update"
    /\ Len(local.commitment_data) = 2
    /\ Len(local.commitment_data[1].queries) = 2
    /\ proof.queries[1].point = proof.queries[3].point
    /\ proof.queries[1].point # proof.queries[2].point

\* The terms of t that follow its first Len(s) terms.
After(s, t) == SubSeq(t, Len(s) + 1, Len(t))

\* C14: verify_proof leaves the supplied accumulator untouched until line 110
\* and then only appends: in the Guard each side starts with the supplied terms,
\* unscaled and in order; left gains exactly the N witness terms (one per W_i),
\* right gains the z_i * W_i terms, then the commitment terms, then the one
\* evaluation term on -g0; each side's value is its entry value plus its gain.
C14_OnlyAppends ==
    /\ pc \in {"squeeze_v", "group", "read", "squeeze_u", "fold", "update"} =>
           local.msm_accumulator = local.entry
    /\ (pc = "returned" /\ outcome = "Guard") =>
        LET acc == local.msm_accumulator
            N == Len(local.commitment_data)
            evalTerm == [s |-> local.multi.eval_multi, b |-> FNeg(G0)]
        IN  /\ IsPrefix(local.entry.left, acc.left)
            /\ IsPrefix(local.entry.right, acc.right)
            /\ After(local.entry.left, acc.left) = local.multi.witness
            /\ Len(local.multi.witness) = N
            /\ \A i \in 1 .. N : local.multi.witness[i].b = local.w[i]
            /\ After(local.entry.right, acc.right)
                   = local.multi.witness_with_aux \o local.multi.commitment_multi
                         \o <<evalTerm>>
            /\ MsmEval(acc.left)
                   = FAdd(MsmEval(local.entry.left), MsmEval(local.multi.witness))
            /\ MsmEval(acc.right)
                   = FAdd(MsmEval(local.entry.right),
                          FAdd(MsmEval(local.multi.witness_with_aux),
                               FAdd(MsmEval(local.multi.commitment_multi),
                                    MsmEval(<<evalTerm>>))))

C14_Witness ==
    /\ pc = "returned" /\ outcome = "Guard"
    /\ caller = "batch"
    /\ Len(local.entry.left) = 2
    /\ local.entry.left[1].s > 1
    /\ Len(local.commitment_data) = 2
    /\ Len(local.msm_accumulator.left) = 4

\* The proof with every nested MSM replaced by a direct commitment to the
\* group element the MSM stands for.
Flattened(p) ==
    [p EXCEPT !.queries =
        [i \in DOMAIN p.queries |->
            IF p.queries[i].commitment.tag = "MSM"
            THEN VerifierQuery(p.queries[i].point,
                               RefCommitment(MsmEval(p.queries[i].commitment.msm)),
                               p.queries[i].eval)
            ELSE p.queries[i]]]

\* C15: a query whose commitment is a nested MSM counts for exactly what a
\* direct commitment to the MSM's value would: both sides of the Guard's
\* accumulator have the value the flattened proof gives.  The nested terms are
\* merged after the batch was scaled by v, with their own scalars: a proof of
\* one query on a nested MSM leaves z*W, the MSM's terms as they are, and the
\* evaluation term.  The queries handed in are as they were.
C15_NestedAsDirect ==
    (pc = "returned" /\ outcome = "Guard") =>
      LET direct == VerifyProof(Flattened(proof), local.entry)
      IN
        /\ MsmEval(local.msm_accumulator.right) = MsmEval(direct.right)
        /\ MsmEval(local.msm_accumulator.left) = MsmEval(direct.left)
        /\ (Len(proof.queries) = 1 /\ proof.queries[1].commitment.tag = "MSM") =>
               After(local.entry.right, local.msm_accumulator.right)
                   = <<[s |-> proof.queries[1].point, b |-> local.w[1]]>>
                         \o proof.queries[1].commitment.msm
                         \o <<[s |-> proof.queries[1].eval, b |-> FNeg(G0)]>>
        /\ \A g \in DOMAIN local.commitment_data :
               \A q \in DOMAIN local.commitment_data[g].queries :
                   local.commitment_data[g].queries[q].commitment.tag = "MSM" =>
                       local.commitment_data[g].queries[q].commitment = RefOf("M")

C15_Witness ==
    /\ pc = "returned" /\ outcome = "Guard"
    /\ Len(local.commitment_data[1].queries) = 2
    /\ local.commitment_data[1].queries[1].commitment.tag = "MSM"
    /\ local.commitment_data[1].queries[2].commitment.tag = "Commitment"
    /\ local.v \notin {0, 1}
    /\ Flattened(proof) # proof

\* The groups holding a query whose point is not the group's.
MismatchedGroups ==
    {g \in DOMAIN local.commitment_data :
        \E q \in DOMAIN local.commitment_data[g].queries :
            local.commitment_data[g].queries[q].point # local.commitment_data[g].point}
FirstMismatched == CHOOSE g \in MismatchedGroups : \A h \in MismatchedGroups : g <= h

\* C16: whatever groups the fold is given, no Guard is returned when some query
\* sits in a group of another point.  The call stops at the first such group:
\* nothing of that group's batch (neither commitments nor evaluations) has been
\* merged, the supplied accumulator is as it was at entry, and no check is made.
C16_NoGuardOnMismatch ==
    /\ (outcome = "Guard" \/ pc \in {"update", "returned", "done"}) =>
           (MismatchedGroups = {} \/ outcome = "SamplingError")
    /\ (pc = "fold" /\ MismatchedGroups # {}) => local.msm_accumulator = local.entry
    /\ outcome = "panic" =>
        LET before == GroupLoop(SubSeq(local.commitment_data, 1, FirstMismatched - 1),
                                local.w, local.u, local.v, NewMulti)
        IN  /\ pc = "aborted"
            /\ MismatchedGroups # {}
            /\ local.multi.commitment_multi = MsmScale(before.commitment_multi, local.u)
            /\ local.multi.eval_multi = FMul(before.eval_multi, local.u)
            /\ local.msm_accumulator = local.entry
            /\ accepted = "none" /\ pairings = 0

C16_Witness ==
    /\ outcome = "panic"
    /\ Len(local.commitment_data) = 2
    /\ FirstMismatched = 2
    /\ Len(local.commitment_data[2].queries) = 2
    /\ local.commitment_data[2].queries[1].point = local.commitment_data[2].point
    /\ local.multi.commitment_multi # <<>>
    /\ local.u # 0

\* What one proof adds to an accumulator: its Guard from an empty one.
Contribution(p) == VerifyProof(p, DualNew)

\* prod_{i > j} r_i over the scalars of the successful calls.
RECURSIVE ScalarsAfter(_)
ScalarsAfter(j) ==
    IF j >= Len(history) THEN 1 ELSE FMul(history[j + 1].r, ScalarsAfter(j + 1))

\* sum_{j >= k} (prod_{i>j} r_i) * contribution_j, as the list of its terms.
RECURSIVE ScaledContributions(_)
ScaledContributions(k) ==
    IF k > Len(history) THEN DualNew
    ELSE LET scaled == DualScale(Contribution(history[k].proof), ScalarsAfter(k))
             rest == ScaledContributions(k + 1)
         IN  [left |-> scaled.left \o rest.left, right |-> scaled.right \o rest.right]

\* C17: after K successful process calls on a fresh strategy the running
\* accumulator is, term for term and on each side,
\* sum_j (prod_{i>j} r_i) * contribution_j: the last proof enters with
\* coefficient 1, and r_1, which scaled the empty accumulator, occurs in no
\* coefficient.
C17_BatchClosedForm ==
    (caller = "batch" /\ strategy.state = "alive") =>
        strategy.msm_accumulator = ScaledContributions(1)

C17_Witness ==
    /\ caller = "batch" /\ strategy.state = "alive"
    /\ Len(history) = 2
    /\ history[1].r \notin {0, 1}
    /\ history[2].r \notin {0, 1}
    /\ history[1].proof # history[2].proof
    /\ Len(strategy.msm_accumulator.right) > 6

\* The proof with other challenges in its transcript, all else as it is.
WithV(p, x) == [p EXCEPT !.chal = <<x, p.chal[2]>>]
WithU(p, x) == [p EXCEPT !.chal = <<p.chal[1], x>>]

\* C18: the fold scales before it appends, so the first scaling acts on zero.
\* With one group the Guard's accumulator is the same for every u, and with one
\* query in every group it is the same for every v; both challenges have been
\* squeezed from the transcript all the same.
C18_FirstScalingOnZero ==
    (pc = "returned" /\ outcome = "Guard") =>
        /\ Len(local.commitment_data) = 1 =>
               \A x \in F :
                   VerifyProof(WithU(proof, x), local.entry) = local.msm_accumulator
        /\ (\A g \in DOMAIN local.commitment_data :
                Len(local.commitment_data[g].queries) = 1) =>
               \A x \in F :
                   VerifyProof(WithV(proof, x), local.entry) = local.msm_accumulator
        /\ transcript.chal = <<>>
        /\ Cardinality({i \in DOMAIN transcript.ops : transcript.ops[i] = "squeeze"}) = 2

C18_Witness ==
    /\ pc = "returned" /\ outcome = "Guard"
    /\ Len(local.commitment_data) = 1
    /\ Len(local.commitment_data[1].queries) = 1
    /\ local.u \notin {0, 1}
    /\ local.v \notin {0, 1}
    /\ local.u # local.v
    /\ proof.queries[1].commitment.tag = "MSM"

====
